---- MODULE Spec2Model ----
(***************************************************************************)
(* Model of prometheus-immich-exporter (src/immich_exporter/exporter.py).  *)
(*                                                                         *)
(* Two threads are modelled.  The main thread runs main(): configuration   *)
(* check, check_server_up, check_immich_api_key, registration, idle loop.  *)
(* The scrape thread runs ImmichMetricsCollector.collect() once per scrape *)
(* after the HTTP server was started.  Signals are delivered to the main   *)
(* thread by the Python interpreter.                                       *)
(***************************************************************************)
EXTENDS Integers, Sequences, FiniteSets, TLC

VARIABLES
    config,          \* main(): the config dict (required values only)
    pc,              \* position of the main thread
    counter,         \* check_server_up: local attempt counter
    resp,            \* outcome of the last probe request of the main thread
    sleep_s,         \* seconds of the time.sleep() the main thread is in (0: none)
    auth_attempts,   \* history: requests issued by the running check_immich_api_key
    shutdown_count,  \* SignalHandler.shutdown_count
    signals,         \* history: termination signals delivered to the process
    log,             \* messages logged by the main thread (and the signal handler)
    registered,      \* REGISTRY.register(...) done
    listening,       \* start_http_server(...) done
    spc,             \* position of the scrape thread inside collect()
    metrics,         \* get_immich_metrics: the local list `metrics`
    families,        \* metric families yielded by collect() in this cycle
    scrape_log,      \* messages logged by collect() in this cycle
    scrape_exc,      \* exception that ended this cycle ("none" if none)
    requests_made,   \* history: upstream requests per endpoint in this cycle
    docs,            \* history: what each endpoint answered in this cycle
    later_cycle      \* history: this cycle is not the first of the process

vars == <<config, pc, counter, resp, sleep_s, auth_attempts, shutdown_count,
          signals, log, registered, listening, spc, metrics, families,
          scrape_log, scrape_exc, requests_made, docs, later_cycle>>

mainVars == <<config, pc, counter, resp, sleep_s, auth_attempts, log,
              registered, listening>>
scrapeVars == <<spc, metrics, families, scrape_log, scrape_exc,
                requests_made, docs, later_cycle>>

----------------------------------------------------------------------------
(* Bounds of the model.                                                    *)

MaxAttempts == 302       \* cap of check_server_up's counter
MaxAuthAttempts == 3     \* cap of the requests of check_immich_api_key
MaxSignals == 2          \* cap of the signals delivered
MaxUsers == 2            \* longest usageByUser array
MaxVersionRequests == 2  \* cap of the /version requests of one cycle

----------------------------------------------------------------------------
(* Outcomes of requests.request(): an exception of the                     *)
(* requests.exceptions.RequestException family, or a response with some    *)
(* HTTP status.                                                            *)

RequestException == "RequestException"
HttpStatuses == {"200", "401", "500"}
ProbeOutcomes == {RequestException} \cup HttpStatuses

----------------------------------------------------------------------------
(* SignalHandler                                                           *)

\* SignalHandler.is_shutting_down
is_shutting_down == shutdown_count > 0

\* Parameters of _on_signal_received besides self: `def _on_signal_received(self)`.
on_signal_received_params == <<>>

\* The interpreter calls a handler installed with signal.signal as
\* handler(signum, frame).
SignalCallArgs(sig) == <<sig, "frame">>

\* Main-thread positions whose pending statement is a logger call: an
\* exception raised inside logging.Handler.emit is handed to handleError and
\* not re-raised.
LoggingPcs == {"start", "ping_except", "ping_found", "ping_settle",
               "auth_except", "auth_ok", "register"}

TerminalPcs == {"exit_config", "crashed", "forced", "done"}
Alive == pc \notin TerminalPcs

\* Exit status of the process: sys.exit(1) after a missing value or in the
\* handler, 1 for an uncaught exception, 0 when main() returns.
ExitStatus == IF pc = "done" THEN 0 ELSE 1

\* Body of SignalHandler._on_signal_received.
on_signal_received_body ==
    IF shutdown_count > 1
    THEN /\ log' = log \cup {"Forcibly killing exporter"}
         /\ pc' = "forced"
         /\ UNCHANGED shutdown_count
    ELSE /\ log' = log \cup {"Exporter is shutting down"}
         /\ shutdown_count' = shutdown_count + 1
         /\ UNCHANGED pc

\* Delivery of SIGINT or SIGTERM to the process once the handler is installed.
\* The call handler(signum, frame) binds the arguments to the parameters
\* first; when they do not fit, TypeError is raised in the main thread at
\* its current position and the body does not run.
SignalDelivered(sig) ==
    /\ Alive
    /\ signals < MaxSignals
    /\ signals' = signals + 1
    /\ IF Len(SignalCallArgs(sig)) = Len(on_signal_received_params)
       THEN on_signal_received_body
       ELSE /\ \/ pc' = "crashed"
               \/ pc \in LoggingPcs /\ pc' = pc
            /\ UNCHANGED <<log, shutdown_count>>
    /\ UNCHANGED <<config, counter, resp, sleep_s, auth_attempts,
                   registered, listening>>
    /\ UNCHANGED scrapeVars

----------------------------------------------------------------------------
(* main(): configuration check                                             *)

\* Missing without the check of the token.
Missing_token_unchecked(key) == key # "token" /\ config[key] = ""

\* `if not config[key]`
Missing(key) == config[key] = ""

main_check_config ==
    /\ pc = "start"
    /\ IF Missing("immich_host")
       THEN /\ log' = log \cup {"No host specified, please set IMMICH_HOST environment variable"}
            /\ pc' = "exit_config"
       ELSE IF Missing("immich_port")
       THEN /\ log' = log \cup {"No host specified, please set IMMICH_PORT environment variable"}
            /\ pc' = "exit_config"
       ELSE IF Missing("token")
       THEN /\ log' = log \cup {"No token specified, please set IMMICH_API_TOKEN environment variable"}
            /\ pc' = "exit_config"
       ELSE /\ log' = log \cup {"Exporter is starting up"}
            /\ pc' = "ping"
    /\ UNCHANGED <<config, counter, resp, sleep_s, auth_attempts, registered,
                   listening, shutdown_count, signals>>
    /\ UNCHANGED scrapeVars

----------------------------------------------------------------------------
(* check_server_up                                                         *)

\* backoff_sleep with the first tier ending where the second condition starts.
backoff_sleep_first_tier_10(n) ==
    IF 0 <= n /\ n <= 10 THEN 1
    ELSE IF 11 <= n /\ n <= 300 THEN 15
    ELSE IF n > 300 THEN 60
    ELSE 0

\* The if/elif chain that picks the sleep after a failed attempt; 0 stands
\* for "no branch taken, no sleep".
backoff_sleep(n) ==
    IF 0 <= n /\ n <= 60 THEN 1
    ELSE IF 11 <= n /\ n <= 300 THEN 15
    ELSE IF n > 300 THEN 60
    ELSE 0

\* ping_next with an error status treated like a failed request.
ping_next_raise_for_status(r) ==
    IF r = RequestException \/ r = "500" THEN "ping_except" ELSE "ping_found"

\* try/except around the ping request: where control goes on outcome r.
ping_next(r) == IF r = RequestException THEN "ping_except" ELSE "ping_found"

check_server_up_request ==
    /\ pc = "ping"
    /\ counter < MaxAttempts
    /\ counter' = counter + 1
    /\ \E r \in ProbeOutcomes :
          /\ resp' = r
          /\ pc' = ping_next(r)
    /\ UNCHANGED <<config, sleep_s, auth_attempts, log, registered, listening,
                   shutdown_count, signals>>
    /\ UNCHANGED scrapeVars

check_server_up_except ==
    /\ pc = "ping_except"
    /\ log' = log \cup {"CONNECTION ERROR. Cannot reach immich. Is immich up and running?"}
    /\ sleep_s' = backoff_sleep(counter)
    /\ pc' = "ping_sleep"
    /\ UNCHANGED <<config, counter, resp, auth_attempts, registered, listening,
                   shutdown_count, signals>>
    /\ UNCHANGED scrapeVars

\* time.sleep returns; `continue` goes back to the top of the loop.
check_server_up_retry ==
    /\ pc = "ping_sleep"
    /\ sleep_s' = 0
    /\ pc' = "ping"
    /\ UNCHANGED <<config, counter, resp, auth_attempts, log, registered,
                   listening, shutdown_count, signals>>
    /\ UNCHANGED scrapeVars

\* `break`, the two info lines and time.sleep(1).
check_server_up_found ==
    /\ pc = "ping_found"
    /\ log' = log \cup {"Found immich up and running.", "Attempting to connect to immich"}
    /\ sleep_s' = 1
    /\ pc' = "ping_settle"
    /\ UNCHANGED <<config, counter, resp, auth_attempts, registered, listening,
                   shutdown_count, signals>>
    /\ UNCHANGED scrapeVars

\* The last info line and the return to main(); the locals go out of scope.
check_server_up_return ==
    /\ pc = "ping_settle"
    /\ log' = log \cup {"Exporter 1.2.1"}
    /\ sleep_s' = 0
    /\ counter' = 0
    /\ resp' = "none"
    /\ pc' = "auth"
    /\ UNCHANGED <<config, auth_attempts, registered, listening,
                   shutdown_count, signals>>
    /\ UNCHANGED scrapeVars

----------------------------------------------------------------------------
(* check_immich_api_key                                                    *)

\* try/except around the authenticated request.
auth_next(r) == IF r = RequestException THEN "auth_except" ELSE "auth_ok"

\* auth_sleep growing with the attempts.
auth_sleep_growing(n) == IF n <= 1 THEN 3 ELSE 15

\* Seconds slept after the failed authenticated request number n.
auth_sleep(n) == 3

check_immich_api_key_request ==
    /\ pc = "auth"
    /\ auth_attempts < MaxAuthAttempts
    /\ auth_attempts' = auth_attempts + 1
    /\ \E r \in ProbeOutcomes :
          /\ resp' = r
          /\ pc' = auth_next(r)
    /\ UNCHANGED <<config, counter, sleep_s, log, registered, listening,
                   shutdown_count, signals>>
    /\ UNCHANGED scrapeVars

check_immich_api_key_except ==
    /\ pc = "auth_except"
    /\ log' = log \cup {"CONNECTION ERROR. Possible API key error"}
    /\ sleep_s' = auth_sleep(auth_attempts)
    /\ pc' = "auth_sleep"
    /\ UNCHANGED <<config, counter, resp, auth_attempts, registered, listening,
                   shutdown_count, signals>>
    /\ UNCHANGED scrapeVars

check_immich_api_key_retry ==
    /\ pc = "auth_sleep"
    /\ sleep_s' = 0
    /\ pc' = "auth"
    /\ UNCHANGED <<config, counter, resp, auth_attempts, log, registered,
                   listening, shutdown_count, signals>>
    /\ UNCHANGED scrapeVars

\* "Success.", `break` and the return to main().
check_immich_api_key_success ==
    /\ pc = "auth_ok"
    /\ log' = log \cup {"Success."}
    /\ resp' = "none"
    /\ auth_attempts' = 0
    /\ pc' = "register"
    /\ UNCHANGED <<config, counter, sleep_s, registered, listening,
                   shutdown_count, signals>>
    /\ UNCHANGED scrapeVars

----------------------------------------------------------------------------
(* main(): registration, HTTP server, idle loop                            *)

\* main_register followed by a new round of probing.
main_register_then_reprobe ==
    /\ pc = "register"
    /\ registered' = TRUE
    /\ listening' = TRUE
    /\ log' = log \cup {"Exporter listening on port"}
    /\ pc' = "ping"
    /\ UNCHANGED <<config, counter, resp, sleep_s, auth_attempts,
                   shutdown_count, signals>>
    /\ UNCHANGED scrapeVars

\* REGISTRY.register, start_http_server and the info line.
main_register ==
    /\ pc = "register"
    /\ registered' = TRUE
    /\ listening' = TRUE
    /\ log' = log \cup {"Exporter listening on port"}
    /\ pc' = "idle"
    /\ UNCHANGED <<config, counter, resp, sleep_s, auth_attempts,
                   shutdown_count, signals>>
    /\ UNCHANGED scrapeVars

\* `while not signal_handler.is_shutting_down(): time.sleep(1)` and the
\* final log line.
main_idle_loop ==
    /\ pc = "idle"
    /\ IF is_shutting_down
       THEN /\ log' = log \cup {"Exporter has shutdown"}
            /\ pc' = "done"
            /\ UNCHANGED sleep_s
       ELSE /\ sleep_s' = 1
            /\ pc' = "idle_sleep"
            /\ UNCHANGED log
    /\ UNCHANGED <<config, counter, resp, auth_attempts, registered, listening,
                   shutdown_count, signals>>
    /\ UNCHANGED scrapeVars

main_idle_wake ==
    /\ pc = "idle_sleep"
    /\ sleep_s' = 0
    /\ pc' = "idle"
    /\ UNCHANGED <<config, counter, resp, auth_attempts, log, registered,
                   listening, shutdown_count, signals>>
    /\ UNCHANGED scrapeVars

----------------------------------------------------------------------------
(* Values of the upstream documents and of the host.  Text is a sequence   *)
(* of one-character strings; a JSON object is a record whose DOMAIN is the *)
(* set of its keys.                                                        *)

Exception == [kind |-> "exception"]
Json(d) == [kind |-> "json", doc |-> d]
NoAnswer == [kind |-> "none"]

VersionDocs ==
    { [major |-> 1, minor |-> 2, patch |-> 3],
      [major |-> 1, minor |-> 12, patch |-> 0],
      [major |-> 1, minor |-> 2] }

StorageDocs ==
    { [diskAvailableRaw |-> 100, diskSizeRaw |-> 500, diskUseRaw |-> 400,
       diskUsagePercentage |-> 80],
      [diskAvailableRaw |-> 100, diskSizeRaw |-> 500,
       diskUsagePercentage |-> 80] }

Users ==
    { [userName |-> <<"A", "n", " ", "L">>, photos |-> 3, videos |-> 1, usage |-> 100],
      [userName |-> <<"B", "o">>, photos |-> 2, videos |-> 0, usage |-> 50],
      [userName |-> <<" ", "A", "n">>, photos |-> 0, videos |-> 2, usage |-> 7],
      [userName |-> <<" ">>, photos |-> 1, videos |-> 1, usage |-> 1],
      [userName |-> <<"B", "o">>, photos |-> 2, videos |-> 0] }

UserArrays == UNION { [1..n -> Users] : n \in 0..MaxUsers }

StatisticsDocs ==
    { [usageByUser |-> a] : a \in UserArrays } \cup { [message |-> "Unauthorized"] }

SystemSnapshots ==
    { [load_avg |-> <<1, 2, 3>>, virtual_mem |-> <<16, 8, 50, 7, 1>>, cpu |-> 5],
      [load_avg |-> <<0, 0, 1>>, virtual_mem |-> <<16, 4, 75, 11, 1>>, cpu |-> 90] }

Answers(Docs) == {Exception} \cup { Json(d) : d \in Docs }

----------------------------------------------------------------------------
(* Python built-ins used by the transformers                               *)

Digits == <<"0", "1", "2", "3", "4", "5", "6", "7", "8", "9">>

\* str(n) of a non-negative int.
RECURSIVE str(_)
str(n) == IF n < 10 THEN <<Digits[n + 1]>>
          ELSE str(n \div 10) \o <<Digits[(n % 10) + 1]>>

\* bool(s) of a str; Python's True is the int 1.
bool(s) == IF Len(s) > 0 THEN 1 ELSE 0

\* s.split(): the maximal runs of non-whitespace characters of s.
RECURSIVE split_from(_, _, _, _)
split_from(s, i, cur, out) ==
    IF i > Len(s)
    THEN IF cur = <<>> THEN out ELSE Append(out, cur)
    ELSE IF s[i] = " "
    THEN split_from(s, i + 1, <<>>, IF cur = <<>> THEN out ELSE Append(out, cur))
    ELSE split_from(s, i + 1, Append(cur, s[i]), out)

split(s) == split_from(s, 1, <<>>, <<>>)

Has(d, key) == key \in DOMAIN d

----------------------------------------------------------------------------
(* MetricTransformers.  Each takes what `self.request(endpoint).json()`    *)
(* produced (Exception, or Json(doc)) and returns                          *)
(*   [exc |-> exception leaving the method or "none",                      *)
(*    log |-> messages logged, metrics |-> the list returned].             *)
(* A metric is the dict the code builds; "labels" is an ordered sequence   *)
(* of <<key, value>> pairs and is absent where the dict has none.          *)

metrics_prefix == "immich"

Name(suffix) == <<metrics_prefix, suffix>>

Raised(e, l) == [exc |-> e, log |-> l, metrics |-> <<>>]
Returned(l, m) == [exc |-> "none", log |-> l, metrics |-> m]

\* get_immich_server_version_number, after the request loop was left.
get_immich_server_version_number(response) ==
    IF ~Has(response, "major") \/ ~Has(response, "minor") \/ ~Has(response, "patch")
    THEN Raised("KeyError", {})
    ELSE LET server_version_number ==
                 str(response.major) \o <<".">> \o str(response.minor)
                     \o <<".">> \o str(response.patch)
         IN  Returned({}, <<
                 [name |-> Name("_server_info_version_number"),
                  value |-> bool(server_version_number),
                  help |-> "server version number",
                  labels |-> << <<"version", server_version_number>> >>] >>)

get_immich_storage(r) ==
    LET l == IF r.kind = "exception" THEN {"Couldn't get storage info"} ELSE {}
    IN  IF r.kind = "exception"
        THEN Raised("UnboundLocalError", l)    \* response_storage was never bound
        ELSE LET response_storage == r.doc IN
             IF \/ ~Has(response_storage, "diskAvailableRaw")
                \/ ~Has(response_storage, "diskSizeRaw")
                \/ ~Has(response_storage, "diskUseRaw")
                \/ ~Has(response_storage, "diskUsagePercentage")
             THEN Raised("KeyError", l)
             ELSE Returned(l, <<
                 [name |-> Name("_server_info_diskAvailable"),
                  value |-> response_storage.diskAvailableRaw,
                  help |-> "Available space on disk"],
                 [name |-> Name("_server_info_totalDiskSize"),
                  value |-> response_storage.diskSizeRaw,
                  help |-> "total disk size"],
                 [name |-> Name("_server_info_diskUse"),
                  value |-> response_storage.diskUseRaw,
                  help |-> "disk space in use"],
                 [name |-> Name("_server_info_diskUsagePercentage"),
                  value |-> response_storage.diskUsagePercentage,
                  help |-> "disk usage in percent"] >>)

\* user_metrics labelled with the whole userName.
user_metrics_full_name(u) ==
    LET firstName == u.userName
        help == <<"Number of photos by user ", firstName, " ">>
    IN  << [name |-> Name("_server_stats_photos_by_users"), value |-> u.photos,
            labels |-> << <<"firstName", firstName>> >>, help |-> help],
           [name |-> Name("_server_stats_videos_by_users"), value |-> u.videos,
            labels |-> << <<"firstName", firstName>> >>, help |-> help],
           [name |-> Name("_server_stats_usage_by_users"), value |-> u.usage,
            labels |-> << <<"firstName", firstName>> >>, help |-> help] >>

\* The three dicts appended for user_data[x].
user_metrics(u) ==
    LET firstName == split(u.userName)[1]
        help == <<"Number of photos by user ", firstName, " ">>
    IN  << [name |-> Name("_server_stats_photos_by_users"), value |-> u.photos,
            labels |-> << <<"firstName", firstName>> >>, help |-> help],
           [name |-> Name("_server_stats_videos_by_users"), value |-> u.videos,
            labels |-> << <<"firstName", firstName>> >>, help |-> help],
           [name |-> Name("_server_stats_usage_by_users"), value |-> u.usage,
            labels |-> << <<"firstName", firstName>> >>, help |-> help] >>

\* running_totals with the usage total fed from the photos field.
running_totals_copy_paste(st, u) ==
    [st EXCEPT !.photos_growth_total = @ + u.photos,
               !.videos_growth_total = @ + u.videos,
               !.usage_growth_total = @ + u.photos]

\* The three `+=` at the top of the loop body.
running_totals(st, u) ==
    [st EXCEPT !.photos_growth_total = @ + u.photos,
               !.videos_growth_total = @ + u.videos,
               !.usage_growth_total = @ + u.usage]

\* `for x in range(0, user_count)`: st holds the running totals, the list
\* and the exception that left the loop, if any.
RECURSIVE users_loop(_, _, _)
users_loop(user_data, x, st) ==
    IF x > Len(user_data) THEN st
    ELSE LET u == user_data[x] IN
         IF ~Has(u, "photos") \/ ~Has(u, "videos") \/ ~Has(u, "usage")
            \/ ~Has(u, "userName")
         THEN [st EXCEPT !.exc = "KeyError"]
         ELSE IF split(u.userName) = <<>>
         THEN [st EXCEPT !.exc = "IndexError"]
         ELSE users_loop(user_data, x + 1,
                  [running_totals(st, u) EXCEPT
                       !.metrics = st.metrics \o user_metrics(u)])

get_immich_users_stat(r) ==
    LET l == IF r.kind = "exception" THEN {"API ERROR: can't get server statistic"} ELSE {}
    IN  IF r.kind = "exception"
        THEN Raised("UnboundLocalError", l)    \* response_user_stats was never bound
        ELSE IF ~Has(r.doc, "usageByUser")
        THEN Raised("KeyError", l)
        ELSE LET user_data == r.doc.usageByUser
                 user_count == Len(r.doc.usageByUser)
                 st == users_loop(user_data, 1,
                           [exc |-> "none", photos_growth_total |-> 0,
                            videos_growth_total |-> 0, usage_growth_total |-> 0,
                            metrics |-> <<>>])
             IN  IF st.exc # "none" THEN Raised(st.exc, l)
                 ELSE Returned(l, st.metrics \o <<
                     [name |-> Name("_server_stats_user_count"),
                      value |-> user_count,
                      help |-> "number of users on the immich server"],
                     [name |-> Name("_server_stats_photos_growth"),
                      value |-> st.photos_growth_total,
                      help |-> "photos counter that is added or removed"],
                     [name |-> Name("_server_stats_videos_growth"),
                      value |-> st.videos_growth_total,
                      help |-> "videos counter that is added or removed"],
                     [name |-> Name("_server_stats_usage_growth"),
                      value |-> st.usage_growth_total,
                      help |-> "videos counter that is added or removed"] >>)

get_system_stats(snap) ==
    LET load_avg == snap.load_avg
        virtual_mem == snap.virtual_mem
        cpu == snap.cpu
    IN  << [name |-> Name("_system_info_loadAverage"), value |-> load_avg[1],
            help |-> "CPU Load average 1m", labels |-> << <<"period", "1m">> >>],
           [name |-> Name("_system_info_loadAverage"), value |-> load_avg[2],
            help |-> "CPU Load average 5m", labels |-> << <<"period", "5m">> >>],
           [name |-> Name("_system_info_loadAverage"), value |-> load_avg[3],
            help |-> "CPU Load average 15m", labels |-> << <<"period", "15m">> >>],
           [name |-> Name("_system_info_memory"), value |-> virtual_mem[1],
            help |-> "Virtual Memory - Total", labels |-> << <<"type", "Total">> >>],
           [name |-> Name("_system_info_memory"), value |-> virtual_mem[2],
            help |-> "Virtual Memory - Available", labels |-> << <<"type", "Available">> >>],
           [name |-> Name("_system_info_memory"), value |-> virtual_mem[3],
            help |-> "Virtual Memory - Percent", labels |-> << <<"type", "Percent">> >>],
           [name |-> Name("_system_info_memory"), value |-> virtual_mem[4],
            help |-> "Virtual Memory - Used", labels |-> << <<"type", "Used">> >>],
           [name |-> Name("_system_info_memory"), value |-> virtual_mem[5],
            help |-> "Virtual Memory - Free", labels |-> << <<"type", "Free">> >>],
           [name |-> Name("_system_info_cpu_usage"), value |-> cpu,
            help |-> "Representing the current system-wide CPU utilization as a percentage"] >>

\* metric_family with the label values passed as the label names.
metric_family_values_as_names(metric) ==
    LET labels == IF Has(metric, "labels") THEN metric.labels ELSE <<>>
        metric_type == IF Has(metric, "type") THEN metric.type ELSE "gauge"
        help_text == IF Has(metric, "help") THEN metric.help ELSE ""
    IN  [name |-> metric.name,
         documentation |-> help_text,
         type |-> IF metric_type = "counter" THEN "counter" ELSE "gauge",
         labelnames |-> [i \in 1..Len(labels) |-> labels[i][2]],
         samples |-> << [labels |-> [i \in 1..Len(labels) |-> labels[i][2]],
                         value |-> metric.value] >>]

\* Body of the loop of collect(): the metric family built from one dict.
metric_family(metric) ==
    LET labels == IF Has(metric, "labels") THEN metric.labels ELSE <<>>
        metric_type == IF Has(metric, "type") THEN metric.type ELSE "gauge"
        help_text == IF Has(metric, "help") THEN metric.help ELSE ""
    IN  [name |-> metric.name,
         documentation |-> help_text,
         type |-> IF metric_type = "counter" THEN "counter" ELSE "gauge",
         labelnames |-> [i \in 1..Len(labels) |-> labels[i][1]],
         samples |-> << [labels |-> [i \in 1..Len(labels) |-> labels[i][2]],
                         value |-> metric.value] >>]

----------------------------------------------------------------------------
(* collect(): one scrape.  get_immich_metrics runs the four transformers   *)
(* in order; an exception leaving a transformer leaves collect().          *)

NoRequests == [version |-> 0, storage |-> 0, statistics |-> 0]
NoDocs == [version |-> NoAnswer, storage |-> NoAnswer, statistics |-> NoAnswer,
           system |-> NoAnswer]

Serving == Alive /\ listening

\* collect_start with the list of metrics kept from the cycle before.
collect_start_keeps_metrics ==
    /\ Serving
    /\ spc \in {"idle", "done", "failed"}
    /\ spc' = "version"
    /\ metrics' = metrics
    /\ families' = <<>>
    /\ scrape_log' = {"Requested the metrics"}
    /\ scrape_exc' = "none"
    /\ requests_made' = NoRequests
    /\ docs' = NoDocs
    /\ later_cycle' = (spc # "idle")
    /\ UNCHANGED mainVars
    /\ UNCHANGED <<shutdown_count, signals>>

\* A scrape request arrives: collect() logs and get_immich_metrics starts.
collect_start ==
    /\ Serving
    /\ spc \in {"idle", "done", "failed"}
    /\ spc' = "version"
    /\ metrics' = <<>>
    /\ families' = <<>>
    /\ scrape_log' = {"Requested the metrics"}
    /\ scrape_exc' = "none"
    /\ requests_made' = NoRequests
    /\ docs' = NoDocs
    /\ later_cycle' = (spc # "idle")
    /\ UNCHANGED mainVars
    /\ UNCHANGED <<shutdown_count, signals>>

\* One pass of the `while True` of get_immich_server_version_number and,
\* when it breaks, the rest of the method and metrics.extend.
collect_version ==
    /\ Serving
    /\ spc = "version"
    /\ requests_made.version < MaxVersionRequests
    /\ requests_made' = [requests_made EXCEPT !.version = @ + 1]
    /\ \E r \in Answers(VersionDocs) :
          /\ docs' = [docs EXCEPT !.version = r]
          /\ IF r.kind = "exception"
             THEN /\ scrape_log' = scrape_log \cup {"Couldn't get server version"}
                  /\ UNCHANGED <<spc, metrics, scrape_exc>>     \* continue
             ELSE LET res == get_immich_server_version_number(r.doc) IN
                  /\ scrape_log' = scrape_log \cup res.log
                  /\ scrape_exc' = res.exc
                  /\ metrics' = metrics \o res.metrics
                  /\ spc' = IF res.exc = "none" THEN "storage" ELSE "failed"
    /\ UNCHANGED <<families, later_cycle>>
    /\ UNCHANGED mainVars
    /\ UNCHANGED <<shutdown_count, signals>>

collect_storage ==
    /\ Serving
    /\ spc = "storage"
    /\ requests_made' = [requests_made EXCEPT !.storage = @ + 1]
    /\ \E r \in Answers(StorageDocs) :
          LET res == get_immich_storage(r) IN
          /\ docs' = [docs EXCEPT !.storage = r]
          /\ scrape_log' = scrape_log \cup res.log
          /\ scrape_exc' = res.exc
          /\ metrics' = metrics \o res.metrics
          /\ spc' = IF res.exc = "none" THEN "statistics" ELSE "failed"
    /\ UNCHANGED <<families, later_cycle>>
    /\ UNCHANGED mainVars
    /\ UNCHANGED <<shutdown_count, signals>>

collect_users_stat ==
    /\ Serving
    /\ spc = "statistics"
    /\ requests_made' = [requests_made EXCEPT !.statistics = @ + 1]
    /\ \E r \in Answers(StatisticsDocs) :
          LET res == get_immich_users_stat(r) IN
          /\ docs' = [docs EXCEPT !.statistics = r]
          /\ scrape_log' = scrape_log \cup res.log
          /\ scrape_exc' = res.exc
          /\ metrics' = metrics \o res.metrics
          /\ spc' = IF res.exc = "none" THEN "system" ELSE "failed"
    /\ UNCHANGED <<families, later_cycle>>
    /\ UNCHANGED mainVars
    /\ UNCHANGED <<shutdown_count, signals>>

collect_system_stats ==
    /\ Serving
    /\ spc = "system"
    /\ \E snap \in SystemSnapshots :
          /\ docs' = [docs EXCEPT !.system = Json(snap)]
          /\ metrics' = metrics \o get_system_stats(snap)
    /\ spc' = "yield"
    /\ UNCHANGED <<families, scrape_log, scrape_exc, requests_made, later_cycle>>
    /\ UNCHANGED mainVars
    /\ UNCHANGED <<shutdown_count, signals>>

\* collect_yield with the yield after the loop: the last family only.
collect_yield_only_last ==
    /\ Serving
    /\ spc = "yield"
    /\ families' = <<metric_family(metrics[Len(metrics)])>>
    /\ spc' = "done"
    /\ UNCHANGED <<metrics, scrape_log, scrape_exc, requests_made, docs, later_cycle>>
    /\ UNCHANGED mainVars
    /\ UNCHANGED <<shutdown_count, signals>>

\* The `for metric in metrics` loop of collect(), run to its end.
collect_yield ==
    /\ Serving
    /\ spc = "yield"
    /\ families' = [i \in 1..Len(metrics) |-> metric_family(metrics[i])]
    /\ spc' = "done"
    /\ UNCHANGED <<metrics, scrape_log, scrape_exc, requests_made, docs, later_cycle>>
    /\ UNCHANGED mainVars
    /\ UNCHANGED <<shutdown_count, signals>>

----------------------------------------------------------------------------
(* The process                                                             *)

\* State once main() has loaded the config and constructed SignalHandler.
Init ==
    /\ config \in [immich_host : {"", "immich"}, immich_port : {"", "2283"},
                    token : {"", "key"}]
    /\ pc = "start"
    /\ counter = 0
    /\ resp = "none"
    /\ sleep_s = 0
    /\ auth_attempts = 0
    /\ shutdown_count = 0
    /\ signals = 0
    /\ log = {}
    /\ registered = FALSE
    /\ listening = FALSE
    /\ spc = "idle"
    /\ metrics = <<>>
    /\ families = <<>>
    /\ scrape_log = {}
    /\ scrape_exc = "none"
    /\ requests_made = NoRequests
    /\ docs = NoDocs
    /\ later_cycle = FALSE

Signal == \E sig \in {"SIGINT", "SIGTERM"} : SignalDelivered(sig)

Next ==
    \/ main_check_config
    \/ check_server_up_request
    \/ check_server_up_except
    \/ check_server_up_retry
    \/ check_server_up_found
    \/ check_server_up_return
    \/ check_immich_api_key_request
    \/ check_immich_api_key_except
    \/ check_immich_api_key_retry
    \/ check_immich_api_key_success
    \/ main_register
    \/ main_idle_loop
    \/ main_idle_wake
    \/ Signal
    \/ collect_start
    \/ collect_version
    \/ collect_storage
    \/ collect_users_stat
    \/ collect_system_stats
    \/ collect_yield

Spec == Init /\ [][Next]_vars

----------------------------------------------------------------------------
(* Vocabulary of the properties                                            *)

ValidVersion(d) == Has(d, "major") /\ Has(d, "minor") /\ Has(d, "patch")

ValidStorage(d) ==
    /\ Has(d, "diskAvailableRaw") /\ Has(d, "diskSizeRaw")
    /\ Has(d, "diskUseRaw") /\ Has(d, "diskUsagePercentage")

ValidUser(u) ==
    /\ Has(u, "userName") /\ Has(u, "photos") /\ Has(u, "videos") /\ Has(u, "usage")
    /\ \E i \in 1..Len(u.userName) : u.userName[i] # " "

ValidStatistics(d) ==
    /\ Has(d, "usageByUser")
    /\ \A i \in 1..Len(d.usageByUser) : ValidUser(d.usageByUser[i])

TransportError(ep) == docs[ep].kind = "exception"
Answered(ep) == docs[ep].kind = "json"

ValidAnswer(ep) ==
    /\ Answered(ep)
    /\ CASE ep = "version" -> ValidVersion(docs[ep].doc)
         [] ep = "storage" -> ValidStorage(docs[ep].doc)
         [] ep = "statistics" -> ValidStatistics(docs[ep].doc)

Families(ms) == [i \in 1..Len(ms) |-> metric_family(ms[i])]

\* The records a transformer hands over for what its endpoint answered in
\* this cycle; none when the request failed.
RecordsOf(ep) ==
    IF ~Answered(ep) THEN <<>>
    ELSE CASE ep = "version" -> get_immich_server_version_number(docs[ep].doc).metrics
           [] ep = "storage" -> get_immich_storage(docs[ep]).metrics
           [] ep = "statistics" -> get_immich_users_stat(docs[ep]).metrics
           [] ep = "system" -> get_system_stats(docs[ep].doc)

ReachPcs == {"ping", "ping_except", "ping_sleep", "ping_found", "ping_settle"}
AuthPcs == {"auth", "auth_except", "auth_sleep", "auth_ok"}
IdlePcs == {"idle", "idle_sleep"}

----------------------------------------------------------------------------
\* Exactly one of /storage and /statistics failed with a transport error and
\* every other endpoint that answered gave a valid document.
C1_Case ==
    /\ ValidAnswer("version")
    /\ TransportError("storage") # TransportError("statistics")
    /\ Answered("storage") => ValidAnswer("storage")
    /\ Answered("statistics") => ValidAnswer("statistics")

\* C1: when the request to exactly one of /storage and /statistics fails with
\* a transport error and every other endpoint that answers gives a valid
\* document, the cycle does not fail: it ends with the records of the other
\* transformers, none of the failing one, and an error in the log.
C1_OneFailingEndpointIsSkipped ==
    C1_Case =>
        /\ spc # "failed"
        /\ TransportError("storage") => "Couldn't get storage info" \in scrape_log
        /\ TransportError("statistics") =>
               "API ERROR: can't get server statistic" \in scrape_log
        /\ spc = "done" =>
               families = Families(RecordsOf("version") \o RecordsOf("storage")
                                   \o RecordsOf("statistics") \o RecordsOf("system"))

\* C2: once exactly one termination signal has been received, the delivery
\* of a second one ends the process at once.
C2_SecondSignalForcesExit ==
    [][(signals = 1 /\ signals' = 2) => ~Alive']_vars

\* C3: in the idle loop with count = 0, the first termination signal sets
\* count to 1 (is_shutting_down() true) and does not end the process.
C3_FirstSignalDrains ==
    [][(pc \in IdlePcs /\ shutdown_count = 0 /\ signals' = signals + 1)
          => (shutdown_count' = 1 /\ is_shutting_down' /\ Alive')]_vars

\* The schedule of the specification's table.
Tier(n) == IF n \in 1..60 THEN 1 ELSE IF n \in 61..300 THEN 15 ELSE 60

\* C4: the sleep after the n-th failed reachability attempt is 1 s for n in
\* 1..60, 15 s for n in 61..300 and 60 s beyond; an attempt is made only at
\* the top of the loop, and the top of the loop is re-entered after a failed
\* attempt only out of that one sleep.
C4_BackoffSchedule ==
    [][ /\ (pc = "ping_except" /\ pc' # pc /\ signals' = signals)
               => (pc' = "ping_sleep" /\ sleep_s' = Tier(counter))
        /\ (counter' = counter + 1) => pc = "ping"
        /\ (pc' = "ping" /\ pc # "ping" /\ counter > 0)
               => (pc = "ping_sleep" /\ sleep_s = Tier(counter)) ]_vars

C4_Witness == pc = "ping_sleep" /\ counter = 301 /\ sleep_s = 60

\* C5: a reachability attempt that raises goes to the retry path and one that
\* obtains a response, whatever its status, ends the loop; a failed attempt
\* is always followed by the sleep and the next attempt, at every count; and
\* the probe itself leaves the phase only by returning to main() after a
\* response.
C5_ReachabilityRetries ==
    [][ /\ (pc = "ping" /\ counter' = counter + 1)
               => /\ resp' = RequestException => pc' = "ping_except"
                  /\ resp' \in HttpStatuses => pc' = "ping_found"
        /\ (pc \in {"ping_except", "ping_sleep"} /\ pc' # pc /\ signals' = signals)
               => pc' = (IF pc = "ping_except" THEN "ping_sleep" ELSE "ping")
        /\ (pc \in ReachPcs /\ pc' \notin ReachPcs /\ signals' = signals)
               => (pc' = "auth" /\ resp \in HttpStatuses) ]_vars

C5_Witness == pc = "ping_found" /\ resp = "500" /\ counter > 300

\* C6: a failed authenticated request is followed by a sleep of 3 s whatever
\* the number of attempts and then by the next attempt; an attempt that
\* obtains a response, 401 included, ends the phase with "Success." and the
\* probe leaves the phase no other way.
C6_AuthenticationRetries ==
    [][ /\ (pc = "auth" /\ auth_attempts' = auth_attempts + 1)
               => /\ resp' = RequestException => pc' = "auth_except"
                  /\ resp' \in HttpStatuses => pc' = "auth_ok"
        /\ (pc = "auth_except" /\ pc' # pc /\ signals' = signals)
               => (pc' = "auth_sleep" /\ sleep_s' = 3)
        /\ (pc = "auth_sleep" /\ signals' = signals /\ pc' # pc) => pc' = "auth"
        /\ (pc \in AuthPcs /\ pc' \notin AuthPcs /\ signals' = signals)
               => (pc' = "register" /\ resp \in HttpStatuses
                   /\ "Success." \in log') ]_vars

C6_Witness ==
    /\ pc = "auth_ok" /\ resp = "401"
    /\ auth_attempts = MaxAuthAttempts
    /\ "CONNECTION ERROR. Possible API key error" \in log

\* The users transformer has just returned: `metrics` ends with its list.
UsersReturned == spc = "system"

\* Value of the record named prefix + suffix in a list of metric dicts.
ValueOf(ms, suffix) ==
    LET i == CHOOSE j \in 1..Len(ms) : ms[j].name = Name(suffix) IN ms[i].value

Aggregates(ms) ==
    [user_count |-> ValueOf(ms, "_server_stats_user_count"),
     photos_growth |-> ValueOf(ms, "_server_stats_photos_growth"),
     videos_growth |-> ValueOf(ms, "_server_stats_videos_growth"),
     usage_growth |-> ValueOf(ms, "_server_stats_usage_growth")]

RECURSIVE SumOver(_, _, _)
SumOver(S, arr, f) ==
    IF S = {} THEN 0
    ELSE LET i == CHOOSE j \in S : TRUE IN arr[i][f] + SumOver(S \ {i}, arr, f)

\* C7: for a valid usageByUser array the users transformer returns, its
\* user_count is the length of the array, its three growth aggregates are
\* the sums of the photos, videos and usage fields, and every reordering of
\* the array gives the same aggregates.
C7_Aggregates ==
    /\ ValidAnswer("statistics") => spc \in {"system", "yield", "done"}
    /\ UsersReturned =>
           LET arr == docs.statistics.doc.usageByUser
               agg == Aggregates(metrics)
           IN  /\ ValidAnswer("statistics")
               /\ agg.user_count = Len(arr)
               /\ agg.photos_growth = SumOver(DOMAIN arr, arr, "photos")
               /\ agg.videos_growth = SumOver(DOMAIN arr, arr, "videos")
               /\ agg.usage_growth = SumOver(DOMAIN arr, arr, "usage")
               /\ \A p \in Permutations(DOMAIN arr) :
                      LET res == get_immich_users_stat(
                                     Json([usageByUser |-> [i \in DOMAIN arr |-> arr[p[i]]]]))
                      IN  res.exc = "none" /\ Aggregates(res.metrics) = agg

C7_Witness ==
    /\ UsersReturned
    /\ Len(docs.statistics.doc.usageByUser) = 2
    /\ docs.statistics.doc.usageByUser[1] # docs.statistics.doc.usageByUser[2]
    /\ Aggregates(metrics) = [user_count |-> 2, photos_growth |-> 5,
                              videos_growth |-> 1, usage_growth |-> 150]

\* C8: any two families yielded in one cycle that have the same name have
\* the same sequence of label names.
C8_LabelKeysConsistent ==
    \A i, j \in 1..Len(families) :
        families[i].name = families[j].name
            => families[i].labelnames = families[j].labelnames

C8_Witness ==
    /\ spc = "done"
    /\ Len(docs.statistics.doc.usageByUser) = 2
    /\ \E i, j \in 1..Len(families) :
          /\ i # j
          /\ families[i].name = families[j].name
          /\ families[i].labelnames = <<"firstName">>
          /\ families[i].samples # families[j].samples

\* Some endpoint answered with a document that lacks an expected field or
\* holds a userName without a token.
C9_Case ==
    \E ep \in {"version", "storage", "statistics"} : Answered(ep) /\ ~ValidAnswer(ep)

\* C9: when an endpoint answers with a document that lacks an expected field
\* (or with a userName that has no token), the cycle does not fail as a
\* whole: collect() goes on to the remaining transformers.
C9_ShapeErrorIsSkipped ==
    C9_Case => spc # "failed"

\* C10: a transport error on /version makes the cycle skip the version
\* transformer: /version is requested at most once per cycle and collect()
\* goes on to the other transformers.
C10_VersionNotRetried ==
    /\ requests_made.version <= 1
    /\ TransportError("version") => spc # "version"

----------------------------------------------------------------------------
\* ReadinessState as the position of main(): 0 NotStarted, 1
\* ProbingReachability, 2 ProbingAuthentication, 3 Ready.
Readiness(p) ==
    IF p = "start" THEN 0
    ELSE IF p \in ReachPcs THEN 1
    ELSE IF p \in AuthPcs THEN 2
    ELSE 3

ProbeIssued == counter' = counter + 1 \/ auth_attempts' = auth_attempts + 1

\* C11: the readiness state of a running process never moves backwards and
\* advances one state at a time; authentication probing starts only out of
\* a reachability phase that obtained a response; the collector is
\* registered and the sink listens only in Ready; no probe request is
\* issued in Ready.
C11_ReadinessForward ==
    [][ /\ (Alive /\ Alive') =>
               /\ Readiness(pc') >= Readiness(pc)
               /\ Readiness(pc') <= Readiness(pc) + 1
        /\ (Alive' /\ Readiness(pc') = 2 /\ Readiness(pc) # 2) =>
               (pc = "ping_settle" /\ resp \in HttpStatuses)
        /\ (registered' \/ listening') =>
               (Readiness(pc) = 3 /\ (Alive' => Readiness(pc') = 3))
        /\ ProbeIssued => (Readiness(pc) \in {1, 2} /\ ~registered /\ ~listening) ]_vars

C11_Witness ==
    /\ pc = "idle_sleep" /\ registered /\ listening
    /\ "CONNECTION ERROR. Cannot reach immich. Is immich up and running?" \in log
    /\ "CONNECTION ERROR. Possible API key error" \in log

AnyMissing == \E key \in {"immich_host", "immich_port", "token"} : config[key] = ""

\* C12: with a required value missing, no probe request is ever issued, the
\* collector is never registered, the sink never started, and the process
\* ends with a non-zero status straight from the configuration check.
C12_MissingConfigIsFatal ==
    AnyMissing =>
        /\ pc \in {"start", "exit_config", "crashed"}
        /\ counter = 0 /\ auth_attempts = 0 /\ resp = "none"
        /\ ~registered /\ ~listening
        /\ ~Alive => ExitStatus # 0

C12_Witness ==
    /\ pc = "exit_config" /\ ExitStatus = 1
    /\ config.immich_host # "" /\ config.immich_port # "" /\ config.token = ""

\* C13: the delivery of a termination signal does nothing but add one to the
\* shutdown counter: it logs nothing and leaves the main thread where it is.
C13_HandlerOnlyCounts ==
    [][(signals' = signals + 1)
          => (shutdown_count' = shutdown_count + 1 /\ log' = log /\ pc' = pc)]_vars

\* C14: in a running process the shutdown counter equals the number of
\* termination signals delivered so far.
C14_CountEqualsSignals ==
    Alive => shutdown_count = signals

\* C18: the first termination signal delivered during readiness probing
\* leaves the process alive and the probe where it was.
C18_SignalDoesNotEndProbing ==
    [][(pc \in ReachPcs \cup AuthPcs /\ signals = 0 /\ signals' = 1)
          => (Alive' /\ pc' = pc)]_vars

\* The first whitespace-delimited token of s, for s with a non-blank
\* character: from the first non-blank up to the next blank or the end.
FirstToken(s) ==
    LET a == CHOOSE i \in 1..Len(s) :
                 s[i] # " " /\ \A j \in 1..(i - 1) : s[j] = " "
        b == CHOOSE i \in a..Len(s) :
                 /\ \A j \in a..i : s[j] # " "
                 /\ (i = Len(s) \/ s[i + 1] = " ")
    IN  SubSeq(s, a, b)

UserSuffixes == <<"_server_stats_photos_by_users", "_server_stats_videos_by_users",
                  "_server_stats_usage_by_users">>
UserFields == <<"photos", "videos", "usage">>
AggregateSuffixes == <<"_server_stats_user_count", "_server_stats_photos_growth",
                       "_server_stats_videos_growth", "_server_stats_usage_growth">>

\* The list the users transformer has just appended to `metrics`.
UsersRecords(n) == SubSeq(metrics, Len(metrics) - (3 * n + 4) + 1, Len(metrics))

\* C15: for an array of n users the users transformer returns 3n + 4
\* records: for the i-th user, in input order, a photos, a videos and a
\* usage record with the user's value and the single label firstName = the
\* first token of userName, then the four aggregates; users with the same
\* first name each keep their three records.
C15_UserRecords ==
    UsersReturned =>
        LET arr == docs.statistics.doc.usageByUser
            n == Len(arr)
            recs == UsersRecords(n)
        IN  /\ Len(metrics) >= 3 * n + 4
            /\ Len(recs) = 3 * n + 4
            /\ Len(recs) = Len(get_immich_users_stat(docs.statistics).metrics)
            /\ \A i \in 1..n : \A k \in 1..3 :
                   LET rec == recs[3 * (i - 1) + k] IN
                   /\ rec.name = Name(UserSuffixes[k])
                   /\ rec.value = arr[i][UserFields[k]]
                   /\ rec.labels = << <<"firstName", FirstToken(arr[i].userName)>> >>
            /\ \A k \in 1..4 :
                   /\ recs[3 * n + k].name = Name(AggregateSuffixes[k])
                   /\ ~Has(recs[3 * n + k], "labels")

C15_Witness ==
    /\ UsersReturned
    /\ Len(docs.statistics.doc.usageByUser) = 2
    /\ docs.statistics.doc.usageByUser[1].userName = <<"A", "n", " ", "L">>
    /\ docs.statistics.doc.usageByUser[2].userName = <<" ", "A", "n">>
    /\ metrics[Len(metrics) - 9].labels = << <<"firstName", <<"A", "n">> >> >>
    /\ metrics[Len(metrics) - 6].labels = << <<"firstName", <<"A", "n">> >> >>

StorageSuffixes == <<"_server_info_diskAvailable", "_server_info_totalDiskSize",
                     "_server_info_diskUse", "_server_info_diskUsagePercentage">>
SystemSuffixes == <<"_system_info_loadAverage", "_system_info_loadAverage",
                    "_system_info_loadAverage", "_system_info_memory",
                    "_system_info_memory", "_system_info_memory",
                    "_system_info_memory", "_system_info_memory",
                    "_system_info_cpu_usage">>

\* Name suffixes of a full cycle with n users, in the order of the claim.
ExpectedSuffixes(n) ==
    <<"_server_info_version_number">> \o StorageSuffixes
        \o [i \in 1..(3 * n) |-> UserSuffixes[((i - 1) % 3) + 1]]
        \o AggregateSuffixes \o SystemSuffixes

TransformerOutput ==
    RecordsOf("version") \o RecordsOf("storage") \o RecordsOf("statistics")
        \o RecordsOf("system")

LabelsOf(metric) == IF Has(metric, "labels") THEN metric.labels ELSE <<>>

\* C16: a cycle in which the four transformers succeed yields one family per
\* record the transformers returned, in the order version, storage (4),
\* user statistics (3n + 4), system (9): the i-th family carries the name,
\* label names, label values and value of the i-th record.
C16_YieldInOrder ==
    spc = "done" =>
        LET out == TransformerOutput
            n == Len(docs.statistics.doc.usageByUser)
        IN  /\ Len(families) = 1 + 4 + (3 * n + 4) + 9
            /\ Len(families) = Len(out)
            /\ \A i \in 1..Len(families) :
                   /\ families[i].name = Name(ExpectedSuffixes(n)[i])
                   /\ families[i].name = out[i].name
                   /\ Len(families[i].samples) = 1
                   /\ families[i].samples[1].value = out[i].value
                   /\ Len(families[i].labelnames) = Len(LabelsOf(out[i]))
                   /\ \A k \in 1..Len(LabelsOf(out[i])) :
                          /\ families[i].labelnames[k] = LabelsOf(out[i])[k][1]
                          /\ families[i].samples[1].labels[k] = LabelsOf(out[i])[k][2]

C16_Witness ==
    /\ spc = "done"
    /\ Len(docs.statistics.doc.usageByUser) = 2
    /\ Len(families) = 24
    /\ families[1].labelnames = <<"version">>
    /\ families[24].name = Name("_system_info_cpu_usage")

\* C17: in every cycle, the first or a later one, the version, storage and
\* user-statistics records are those the documents of this cycle determine
\* and the growth totals are the sums over this cycle's users alone: nothing
\* of an earlier cycle is in them.
C17_NoStateAcrossCycles ==
    UsersReturned =>
        LET arr == docs.statistics.doc.usageByUser
            agg == Aggregates(UsersRecords(Len(arr)))
        IN  /\ metrics = RecordsOf("version") \o RecordsOf("storage")
                             \o RecordsOf("statistics")
            /\ agg.user_count = Len(arr)
            /\ agg.photos_growth = SumOver(DOMAIN arr, arr, "photos")
            /\ agg.videos_growth = SumOver(DOMAIN arr, arr, "videos")
            /\ agg.usage_growth = SumOver(DOMAIN arr, arr, "usage")

C17_Witness ==
    /\ later_cycle
    /\ UsersReturned
    /\ Len(docs.statistics.doc.usageByUser) = 2
    /\ Aggregates(UsersRecords(2)).usage_growth = 150

====
